---------------------------- MODULE Spec2Model ----------------------------
(***************************************************************************)
(* Model of the Sesame CSM 1B text-to-speech service (src/app.py): the     *)
(* lifespan startup that loads the model once, the API-key dependency, and *)
(* the handlers of /, /health, /ping, /generate and /run; and of the       *)
(* deployment script (src/deploy_to_runpod.py), a program of its own with  *)
(* its own specification, DeploySpec.                                      *)
(*                                                                         *)
(* Conventions.  An Optional value is a sequence of length at most one:    *)
(* <<>> is None (or an absent JSON key), <<v>> is the value v.             *)
(* A temperature is an integer number of tenths (0.7 is 7, 2.0 is 20).     *)
(* A text is a record [id, len]: its identity and its length.              *)
(* The external library (processor, model, soundfile, requests) is an      *)
(* oracle: the outcome of each of its calls is an input of the request,    *)
(* the field env of the request context.                                   *)
(***************************************************************************)
EXTENDS Integers, Sequences, FiniteSets, TLC

VARIABLES
    API_KEY,      \* the configured key, "" when none (os.getenv, fixed per process)
    phase,        \* "init" | "loading" | "serving": where the lifespan is
    loadPc,       \* position inside load_model
    loadResult,   \* "none" | "running" | "completed" | "raised"
    loadCount,    \* number of times load_model was entered
    model,        \* global model:     "None" | "obj"
    processor,    \* global processor: "None" | "obj"
    device,       \* global device:    "None" | "cuda" | "cpu"
    cur,          \* the request being handled (handlers run one at a time)
    deploy        \* the run of the deployment script (src/deploy_to_runpod.py)

appVars == <<API_KEY, phase, loadPc, loadResult, loadCount, model, processor, device, cur>>

vars == <<appVars, deploy>>

globals == <<model, processor, device>>

(***************************************************************************)
(* Bounds of the model and constants of the program.                       *)
(***************************************************************************)
\* longest WAV byte stream the encoder oracle returns
MaxWavLen == 3

TEXT_MIN_LEN == 1
TEXT_MAX_LEN == 500
TEMP_MIN == 0
TEMP_MAX == 20
DEFAULT_TEMPERATURE == 7

None == <<>>
Some(v) == <<v>>

DEFAULT_SPEAKER == "0"

\* the key the deployment may configure, and the header values a client may send
Keys == {"", "secret"}
Headers == {None, Some(""), Some("wrong"), Some("secret")}

Endpoints == {"/", "/health", "/ping", "/generate", "/run"}

(***************************************************************************)
(* base64.b64encode / b64decode on sequences of bytes.  A base64 text is   *)
(* a sequence of sextets 0..63, with 64 standing for the padding sign.     *)
(***************************************************************************)
PAD == 64

RECURSIVE b64encode(_)
b64encode(bytes) ==
    IF Len(bytes) = 0 THEN <<>>
    ELSE IF Len(bytes) = 1 THEN
        << bytes[1] \div 4, (bytes[1] % 4) * 16, PAD, PAD >>
    ELSE IF Len(bytes) = 2 THEN
        << bytes[1] \div 4,
           (bytes[1] % 4) * 16 + bytes[2] \div 16,
           (bytes[2] % 16) * 4,
           PAD >>
    ELSE
        << bytes[1] \div 4,
           (bytes[1] % 4) * 16 + bytes[2] \div 16,
           (bytes[2] % 16) * 4 + bytes[3] \div 64,
           bytes[3] % 64 >>
        \o b64encode(SubSeq(bytes, 4, Len(bytes)))

RECURSIVE b64decode(_)
b64decode(chars) ==
    IF Len(chars) < 4 THEN <<>>
    ELSE
        LET c == SubSeq(chars, 1, 4)
            b1 == c[1] * 4 + c[2] \div 16
            b2 == (c[2] % 16) * 16 + c[3] \div 4
            b3 == (c[3] % 4) * 64 + c[4]
        IN  IF c[3] = PAD THEN <<b1>>
            ELSE IF c[4] = PAD THEN <<b1, b2>>
            ELSE <<b1, b2, b3>> \o b64decode(SubSeq(chars, 5, Len(chars)))

\* the bytes soundfile writes: a RIFF stream, cut to the length the oracle gives
RiffBytes == <<82, 73, 70, 70, 36, 0, 0, 0, 87, 65, 86, 69>>
WavBytes(n) == SubSeq(RiffBytes, 1, n)
WavLens == 1..MaxWavLen


(***************************************************************************)
(* The request context.                                                    *)
(***************************************************************************)
\* an input object X: each key absent (<<>>) or present with a value
TextLens == {0, TEXT_MIN_LEN, TEXT_MAX_LEN, TEXT_MAX_LEN + 1}
Texts == { [id |-> "t", len |-> n] : n \in TextLens }
Temperatures == {TEMP_MIN - 1, DEFAULT_TEMPERATURE, TEMP_MAX, TEMP_MAX + 1}

InputObjects ==
    [ text                : {None} \cup { Some(t) : t \in Texts },
      language            : {None, Some("en")},
      temperature         : {None} \cup { Some(t) : t \in Temperatures },
      speaker_id          : {None, Some("1")},
      reference_audio_url : {None, Some("http://ref")} ]

EmptyInput ==
    [ text |-> None, language |-> None, temperature |-> None,
      speaker_id |-> None, reference_audio_url |-> None ]

\* the outcomes of the external calls of one request
DefaultEnv ==
    [ refFetch |-> "ok", template |-> "ok", procCall |-> "ok",
      gen1 |-> "ok", gen2 |-> "ok", encode |-> "ok", wavLen |-> 1 ]

AllEnvs ==
    [ refFetch : {"ok", "raise"},
      template : {"ok", "raise"},
      procCall : {"ok", "raise"},
      gen1     : {"ok", "TypeError", "Error"},
      gen2     : {"ok", "raise"},
      encode   : {"ok", "raise"},
      wavLen   : WavLens ]

\* an outcome is only drawn for a call that can be reached
ReachesGenerate(e) == e.template = "ok" \/ e.procCall = "ok"
ReachesEncode(e) ==
    /\ ReachesGenerate(e)
    /\ e.gen1 # "Error"
    /\ (e.gen1 = "TypeError" => e.gen2 = "ok")
Envs(X) ==
    { e \in AllEnvs :
        /\ X.reference_audio_url = None => e.refFetch = "ok"
        /\ e.template = "ok" => e.procCall = "ok"
        /\ ~ReachesGenerate(e) => e.gen1 = "ok"
        /\ e.gen1 # "TypeError" => e.gen2 = "ok"
        /\ ~ReachesEncode(e) => e.encode = "ok"
        /\ (~ReachesEncode(e) \/ e.encode = "raise") => e.wavLen = 1 }

\* a JSON response; keys are the top-level keys of its body
Response(status, keys) ==
    [ status |-> status, media_type |-> "application/json", keys |-> keys,
      status_text |-> "", detail |-> "", error |-> "",
      model_loaded |-> FALSE, auth_enabled |-> FALSE,
      output |-> None, wav |-> <<>> ]

\* the routes: every handler but ping declares Depends(verify_api_key)
HasAuthDependency(endpoint) == endpoint \in {"/", "/health", "/generate", "/run"}

FirstPc(endpoint) == IF HasAuthDependency(endpoint) THEN "deps" ELSE "ping"

IdleCtx ==
    [ pc |-> "idle", endpoint |-> "/ping", header |-> None,
      kind |-> "object", input |-> EmptyInput, env |-> DefaultEnv,
      via |-> "direct", ti |-> None, conversation |-> <<>>, inputs |-> None,
      calls |-> <<>>, wav |-> <<>>, resp |-> None ]

NewCtx(endpoint, header, kind, X, e) ==
    [ IdleCtx EXCEPT !.pc = FirstPc(endpoint), !.endpoint = endpoint, !.header = header,
                     !.kind = kind, !.input = X, !.env = e ]

Call(op, conversation, text, kwargs, outcome) ==
    [ op |-> op, conversation |-> conversation, text |-> text,
      kwargs |-> kwargs, autocast |-> FALSE, outcome |-> outcome ]

Finish(c, resp) == [ c EXCEPT !.pc = "done", !.resp = Some(resp) ]

(***************************************************************************)
(* Startup: lifespan and load_model.                                       *)
(***************************************************************************)
\* the deployment script is a separate program: the service never runs it
DeployNotRun ==
    [ pc |-> "not_run", env_username |-> None, username |-> None,
      steps |-> <<>>, commands |-> <<>>, printed |-> FALSE,
      result |-> "none", exit_code |-> -1 ]

Init ==
    /\ deploy = DeployNotRun
    /\ API_KEY \in Keys
    /\ phase = "init"
    /\ loadPc = "none"
    /\ loadResult = "none"
    /\ loadCount = 0
    /\ model = "None"
    /\ processor = "None"
    /\ device = "None"
    /\ cur = IdleCtx

\* load_model raises: the exception leaves load_model and is caught by lifespan
LoadRaise ==
    /\ loadPc' = "none"
    /\ loadResult' = "raised"

\* lifespan enters its try block and calls load_model
LifespanStart ==
    /\ phase = "init"
    /\ phase' = "loading"
    /\ loadCount' = loadCount + 1
    /\ loadPc' = "import"
    /\ loadResult' = "running"
    /\ UNCHANGED <<deploy, API_KEY, model, processor, device, cur>>

\* import transformers; from transformers import AutoProcessor, AutoModel
LoadImport ==
    /\ phase = "loading" /\ loadPc = "import"
    /\ \E ok \in BOOLEAN :
         IF ok THEN loadPc' = "set_device" /\ UNCHANGED loadResult
         ELSE LoadRaise
    /\ UNCHANGED <<deploy, API_KEY, phase, loadCount, model, processor, device, cur>>

\* device = torch.device(DEVICE if cuda is available and DEVICE == "cuda" else "cpu")
LoadSetDevice ==
    /\ phase = "loading" /\ loadPc = "set_device"
    /\ \E d \in {"cuda", "cpu"} : device' = d
    /\ loadPc' = "processor"
    /\ UNCHANGED <<deploy, API_KEY, phase, loadResult, loadCount, model, processor, cur>>

\* processor = AutoProcessor.from_pretrained(...)
LoadProcessor ==
    /\ phase = "loading" /\ loadPc = "processor"
    /\ \E ok \in BOOLEAN :
         IF ok THEN processor' = "obj" /\ loadPc' = "model" /\ UNCHANGED loadResult
         ELSE LoadRaise /\ UNCHANGED processor
    /\ UNCHANGED <<deploy, API_KEY, phase, loadCount, model, device, cur>>

\* model = AutoModel.from_pretrained(...): the global is assigned here
LoadModel ==
    /\ phase = "loading" /\ loadPc = "model"
    /\ \E ok \in BOOLEAN :
         IF ok THEN /\ model' = "obj"
                    /\ loadPc' = IF device = "cuda" THEN "eval" ELSE "to_device"
                    /\ UNCHANGED loadResult
         ELSE LoadRaise /\ UNCHANGED model
    /\ UNCHANGED <<deploy, API_KEY, phase, loadCount, processor, device, cur>>

\* model = model.to(device), on the cpu branch only
LoadToDevice ==
    /\ phase = "loading" /\ loadPc = "to_device"
    /\ \E ok \in BOOLEAN :
         IF ok THEN model' = "obj" /\ loadPc' = "eval" /\ UNCHANGED loadResult
         ELSE LoadRaise /\ UNCHANGED model
    /\ UNCHANGED <<deploy, API_KEY, phase, loadCount, processor, device, cur>>

\* model.eval() and the logging of model.config end load_model
LoadEval ==
    /\ phase = "loading" /\ loadPc = "eval"
    /\ \E ok \in BOOLEAN :
         IF ok THEN loadPc' = "none" /\ loadResult' = "completed"
         ELSE LoadRaise
    /\ UNCHANGED <<deploy, API_KEY, phase, loadCount, model, processor, device, cur>>

\* lifespan yields, after load_model returned or after its except clause logged
LifespanYield ==
    /\ phase = "loading" /\ loadResult \in {"completed", "raised"}
    /\ phase' = "serving"
    /\ UNCHANGED <<deploy, API_KEY, loadPc, loadResult, loadCount, model, processor, device, cur>>


(***************************************************************************)
(* The API-key dependency and the input model.                             *)
(***************************************************************************)
\* variant: the header is only required to be present, never compared
verify_api_key_presence_only(x_api_key) ==
    IF API_KEY = "" THEN "ok"
    ELSE IF x_api_key = None \/ x_api_key = Some("") THEN "missing"
    ELSE "ok"

\* "ok" when the dependency returns True, else the HTTPException(401) it raises
verify_api_key(x_api_key) ==
    IF API_KEY = "" THEN "ok"
    ELSE IF x_api_key = None \/ x_api_key = Some("") THEN "missing"
    ELSE IF x_api_key[1] # API_KEY THEN "invalid"
    ELSE "ok"

Unauthorized(reason) ==
    [ Response(401, {"detail"}) EXCEPT
        !.detail = IF reason = "missing"
                   THEN "Unauthorized: Missing custom API key. Please provide X-API-Key header."
                   ELSE "Unauthorized: Invalid custom API key." ]

\* the dependency is solved before the body is validated and the handler is called
Deps(c) ==
    LET r == verify_api_key(c.header)
    IN  IF r # "ok" THEN Finish(c, Unauthorized(r))
        ELSE [ c EXCEPT !.pc = CASE c.endpoint = "/"         -> "root"
                                 [] c.endpoint = "/health"   -> "health"
                                 [] c.endpoint = "/generate" -> "validate"
                                 [] OTHER                    -> "run_extract" ]

\* variant: the text field without its max_length
ValidTextInput_no_max_length(raw) ==
    /\ raw.text # None
    /\ raw.text[1].len >= TEXT_MIN_LEN
    /\ raw.temperature # None =>
         /\ raw.temperature[1] >= TEMP_MIN
         /\ raw.temperature[1] <= TEMP_MAX

\* pydantic's constraints on the fields of TextInput
ValidTextInput(raw) ==
    /\ raw.text # None
    /\ raw.text[1].len >= TEXT_MIN_LEN
    /\ raw.text[1].len <= TEXT_MAX_LEN
    /\ raw.temperature # None =>
         /\ raw.temperature[1] >= TEMP_MIN
         /\ raw.temperature[1] <= TEMP_MAX

\* the TextInput built from valid fields, defaults filled in
TextInput(raw) ==
    [ text                |-> raw.text[1],
      language            |-> raw.language,
      temperature         |-> IF raw.temperature = None
                              THEN Some(DEFAULT_TEMPERATURE) ELSE raw.temperature,
      speaker_id          |-> IF raw.speaker_id = None
                              THEN Some(DEFAULT_SPEAKER) ELSE raw.speaker_id,
      reference_audio_url |-> raw.reference_audio_url ]

\* FastAPI parses the body of POST /generate into input_data: TextInput
Validate(c) ==
    IF ValidTextInput(c.input)
    THEN [ c EXCEPT !.ti = Some(TextInput(c.input)), !.pc = "gen_check" ]
    ELSE Finish(c, [ Response(422, {"detail"}) EXCEPT !.detail = "validation error" ])

(***************************************************************************)
(* The handlers of /, /health and /ping.                                   *)
(***************************************************************************)
root(c) ==
    Finish(c, [ Response(200, {"service", "status", "model_loaded", "auth_enabled"})
                  EXCEPT !.status_text = "running",
                         !.model_loaded = (model # "None"),
                         !.auth_enabled = (API_KEY # "") ])

health_check(c) ==
    IF model = "None"
    THEN Finish(c, [ Response(503, {"status", "message"}) EXCEPT
                       !.status_text = "unhealthy", !.detail = "Model not loaded" ])
    ELSE Finish(c, [ Response(200, {"status", "model"}) EXCEPT
                       !.status_text = "healthy" ])

\* variant: a liveness probe that reports the readiness of the model
ping_needs_model(c) ==
    IF model = "None"
    THEN Finish(c, [ Response(503, {"status"}) EXCEPT !.status_text = "unavailable" ])
    ELSE Finish(c, [ Response(200, {"status"}) EXCEPT !.status_text = "ok" ])

ping(c) ==
    Finish(c, [ Response(200, {"status"}) EXCEPT !.status_text = "ok" ])

(***************************************************************************)
(* generate_audio, step by step.  It is entered from the route of          *)
(* POST /generate (via = "direct") and by the call in runpod_handler       *)
(* (via = "run"), which passes no api_key_valid and solves no dependency.  *)
(***************************************************************************)
HttpExceptionStr(status, detail) ==
    CASE status = 503 -> "503: Model not loaded. Please check server logs."
      [] status = 500 -> "500: Error generating audio"
      [] OTHER        -> detail

RunError(msg) == [ Response(200, {"error"}) EXCEPT !.error = msg ]

\* variant: runpod_handler lets an HTTPException through (except HTTPException: raise)
RaiseHttp_reraised(c, status, detail) ==
    Finish(c, [ Response(status, {"detail"}) EXCEPT !.detail = detail ])

\* an HTTPException leaves generate_audio: FastAPI answers it on the direct
\* route; in runpod_handler the except Exception clause catches it
RaiseHttp(c, status, detail) ==
    IF c.via = "run"
    THEN Finish(c, RunError(HttpExceptionStr(status, detail)))
    ELSE Finish(c, [ Response(status, {"detail"}) EXCEPT !.detail = detail ])

\* variant: the loaded-check placed inside the try block, under the catch-all
GenCheck_inside_try(c) ==
    IF model = "None" \/ processor = "None"
    THEN RaiseHttp(c, 500, "Error generating audio")
    ELSE [ c EXCEPT !.pc = "gen_ref" ]

\* the loaded-check, before the try block
GenCheck(c) ==
    IF model = "None" \/ processor = "None"
    THEN RaiseHttp(c, 503, "Model not loaded. Please check server logs.")
    ELSE [ c EXCEPT !.pc = "gen_ref" ]

\* the except Exception clause that closes the try block of generate_audio
GenFail(c) == RaiseHttp(c, 500, "Error generating audio")

Role(ti) == IF ti.speaker_id = None THEN DEFAULT_SPEAKER ELSE ti.speaker_id[1]

Turn(role, type, text, path) ==
    [ role |-> role, type |-> type, text |-> text, path |-> path ]

\* the optional reference-audio turn; its own try/except swallows a failure
GenRef(c) ==
    LET ti == c.ti[1]
        call == Call("fetch_reference", <<>>, None, <<>>, c.env.refFetch)
    IN  IF ti.reference_audio_url = None
        THEN [ c EXCEPT !.pc = "gen_conv" ]
        ELSE IF c.env.refFetch = "ok"
        THEN [ c EXCEPT !.pc = "gen_conv",
                        !.calls = Append(@, call),
                        !.conversation =
                            Append(@, Turn(Role(ti), "audio", None, Some("ref_audio.wav"))) ]
        ELSE [ c EXCEPT !.pc = "gen_conv", !.calls = Append(@, call) ]

\* the text prompt turn
GenConv(c) ==
    LET ti == c.ti[1]
    IN  [ c EXCEPT !.pc = "gen_template",
                   !.conversation = Append(@, Turn(Role(ti), "text", Some(ti.text), None)) ]

\* inputs = processor.apply_chat_template(conversation, ...)
GenTemplate(c) ==
    LET call == Call("apply_chat_template", c.conversation, None, <<>>, c.env.template)
    IN  IF c.env.template = "ok"
        THEN [ c EXCEPT !.pc = "gen_call1", !.calls = Append(@, call),
                        !.inputs = Some([conversation |-> c.conversation, text |-> None]) ]
        ELSE [ c EXCEPT !.pc = "gen_proc", !.calls = Append(@, call) ]

\* the fallback inputs = processor(text=input_data.text, return_tensors="pt")
GenProc(c) ==
    LET ti == c.ti[1]
        call == Call("processor", <<>>, Some(ti.text), <<>>, c.env.procCall)
    IN  IF c.env.procCall = "ok"
        THEN [ c EXCEPT !.pc = "gen_call1", !.calls = Append(@, call),
                        !.inputs = Some([conversation |-> <<>>, text |-> Some(ti.text)]) ]
        ELSE GenFail([ c EXCEPT !.calls = Append(@, call) ])

GenerateCall(c, kwargs, outcome) ==
    [ Call("generate", c.inputs[1].conversation, c.inputs[1].text, kwargs, outcome)
        EXCEPT !.autocast = (device = "cuda") ]

\* variant: the retry made on any exception (except Exception in place of except TypeError)
GenCall1_retry_on_any_error(c) ==
    LET ti == c.ti[1]
        call == GenerateCall(c, <<ti.temperature>>, c.env.gen1)
        d == [ c EXCEPT !.calls = Append(@, call) ]
    IN  IF c.env.gen1 = "ok" THEN [ d EXCEPT !.pc = "gen_encode" ]
        ELSE [ d EXCEPT !.pc = "gen_call2" ]

\* model.generate(**inputs, output_audio=True, **gen_kwargs)
GenCall1(c) ==
    LET ti == c.ti[1]
        call == GenerateCall(c, <<ti.temperature>>, c.env.gen1)
        d == [ c EXCEPT !.calls = Append(@, call) ]
    IN  CASE c.env.gen1 = "ok"        -> [ d EXCEPT !.pc = "gen_encode" ]
          [] c.env.gen1 = "TypeError" -> [ d EXCEPT !.pc = "gen_call2" ]
          [] OTHER                    -> GenFail(d)

\* except TypeError: model.generate(**inputs, output_audio=True)
GenCall2(c) ==
    LET call == GenerateCall(c, <<>>, c.env.gen2)
        d == [ c EXCEPT !.calls = Append(@, call) ]
    IN  IF c.env.gen2 = "ok" THEN [ d EXCEPT !.pc = "gen_encode" ] ELSE GenFail(d)

\* clip, convert and sf.write(audio_bytes, ..., format='WAV')
GenEncode(c) ==
    LET call == Call("sf.write", <<>>, None, <<>>, c.env.encode)
        d == [ c EXCEPT !.calls = Append(@, call) ]
    IN  IF c.env.encode = "ok"
        THEN [ d EXCEPT !.pc = "gen_return", !.wav = WavBytes(c.env.wavLen) ]
        ELSE GenFail(d)

\* return StreamingResponse(audio_bytes, media_type="audio/wav", ...)
GenReturn(c) ==
    IF c.via = "run" THEN [ c EXCEPT !.pc = "run_collect" ]
    ELSE Finish(c, [ Response(200, {}) EXCEPT !.media_type = "audio/wav", !.wav = c.wav ])

(***************************************************************************)
(* runpod_handler.  The body of POST /run is a JSON object (job: dict);    *)
(* kind tells what job["input"] is: "absent", "null" (any value that is    *)
(* no object) or "object".                                                 *)
(***************************************************************************)
NoText(X) == X.text = None \/ X.text[1].len = 0

\* variant: no check of the text before TextInput is built
RunExtract_no_text_check(c) ==
    IF c.kind = "null"
    THEN Finish(c, RunError("'NoneType' object has no attribute 'get'"))
    ELSE [ c EXCEPT !.pc = "run_build" ]

\* input_data = job.get("input", {}); text = input_data.get("text", "")
RunExtract(c) ==
    CASE c.kind = "absent" -> Finish(c, RunError("No text provided in input"))
      [] c.kind = "null"   -> Finish(c, RunError("'NoneType' object has no attribute 'get'"))
      [] OTHER ->
           IF NoText(c.input)
           THEN Finish(c, RunError("No text provided in input"))
           ELSE [ c EXCEPT !.pc = "run_build" ]

\* the keyword arguments runpod_handler passes to TextInput
RunRaw(X) ==
    [ text                |-> X.text,
      language            |-> X.language,
      temperature         |-> IF X.temperature = None
                              THEN Some(DEFAULT_TEMPERATURE) ELSE X.temperature,
      speaker_id          |-> None,
      reference_audio_url |-> None ]

\* text_input = TextInput(...); result = await generate_audio(text_input)
RunBuild(c) ==
    IF ValidTextInput(RunRaw(c.input))
    THEN [ c EXCEPT !.ti = Some(TextInput(RunRaw(c.input))),
                    !.via = "run", !.pc = "gen_check" ]
    ELSE Finish(c, RunError("validation error for TextInput"))

\* drain result.body_iterator, base64-encode, return {"output": {...}}
RunCollect(c) ==
    Finish(c, [ Response(200, {"output"}) EXCEPT
                  !.output = Some([ audio_base64 |-> b64encode(c.wav),
                                    audio_format |-> "wav",
                                    text         |-> c.input.text[1] ]) ])

(***************************************************************************)
(* The requests a client may send, and one action per step of a handler.   *)
(***************************************************************************)
\* the outcomes of the external calls matter only to a request that can reach them
RequestEnvs(X) ==
    IF model # "None" /\ processor # "None" /\ ValidTextInput(X)
    THEN Envs(X) ELSE {DefaultEnv}

Requests ==
    { NewCtx(ep, h, "object", EmptyInput, DefaultEnv) :
        ep \in {"/", "/health", "/ping"}, h \in Headers }
    \cup UNION { { NewCtx("/generate", h, "object", X, e) : h \in Headers, e \in RequestEnvs(X) } :
                 X \in InputObjects }
    \cup UNION { { NewCtx("/run", h, "object", X, e) : h \in Headers, e \in RequestEnvs(X) } :
                 X \in InputObjects }
    \cup { NewCtx("/run", h, k, EmptyInput, DefaultEnv) :
             h \in Headers, k \in {"absent", "null"} }

\* uvicorn serves requests once the lifespan has yielded
Receive ==
    /\ phase = "serving"
    /\ cur.pc = "idle"
    /\ cur' \in Requests
    /\ UNCHANGED <<deploy, API_KEY, phase, loadPc, loadResult, loadCount, model, processor, device>>

\* the response is sent and the server waits for the next request
Respond ==
    /\ phase = "serving"
    /\ cur.pc = "done"
    /\ cur' = IdleCtx
    /\ UNCHANGED <<deploy, API_KEY, phase, loadPc, loadResult, loadCount, model, processor, device>>


VerifyApiKey ==
    /\ phase = "serving"
    /\ cur.pc = "deps"
    /\ cur' = Deps(cur)
    /\ UNCHANGED <<deploy, API_KEY, phase, loadPc, loadResult, loadCount, model, processor, device>>

ValidateBody ==
    /\ phase = "serving"
    /\ cur.pc = "validate"
    /\ cur' = Validate(cur)
    /\ UNCHANGED <<deploy, API_KEY, phase, loadPc, loadResult, loadCount, model, processor, device>>

Root ==
    /\ phase = "serving"
    /\ cur.pc = "root"
    /\ cur' = root(cur)
    /\ UNCHANGED <<deploy, API_KEY, phase, loadPc, loadResult, loadCount, model, processor, device>>

HealthCheck ==
    /\ phase = "serving"
    /\ cur.pc = "health"
    /\ cur' = health_check(cur)
    /\ UNCHANGED <<deploy, API_KEY, phase, loadPc, loadResult, loadCount, model, processor, device>>

Ping ==
    /\ phase = "serving"
    /\ cur.pc = "ping"
    /\ cur' = ping(cur)
    /\ UNCHANGED <<deploy, API_KEY, phase, loadPc, loadResult, loadCount, model, processor, device>>

\* variant: a handler that loads the model itself when it finds none
GenCheckLoaded_lazy_load ==
    /\ phase = "serving"
    /\ cur.pc = "gen_check"
    /\ IF model = "None" \/ processor = "None"
       THEN /\ model' = "obj"
            /\ processor' = "obj"
            /\ device' = IF device = "None" THEN "cpu" ELSE device
            /\ loadCount' = loadCount + 1
            /\ cur' = [ cur EXCEPT !.pc = "gen_ref" ]
       ELSE /\ cur' = GenCheck(cur)
            /\ UNCHANGED <<model, processor, device, loadCount>>
    /\ UNCHANGED <<deploy, API_KEY, phase, loadPc, loadResult>>

GenCheckLoaded ==
    /\ phase = "serving"
    /\ cur.pc = "gen_check"
    /\ cur' = GenCheck(cur)
    /\ UNCHANGED <<deploy, API_KEY, phase, loadPc, loadResult, loadCount, model, processor, device>>

GenReferenceAudio ==
    /\ phase = "serving"
    /\ cur.pc = "gen_ref"
    /\ cur' = GenRef(cur)
    /\ UNCHANGED <<deploy, API_KEY, phase, loadPc, loadResult, loadCount, model, processor, device>>

GenConversation ==
    /\ phase = "serving"
    /\ cur.pc = "gen_conv"
    /\ cur' = GenConv(cur)
    /\ UNCHANGED <<deploy, API_KEY, phase, loadPc, loadResult, loadCount, model, processor, device>>

GenApplyChatTemplate ==
    /\ phase = "serving"
    /\ cur.pc = "gen_template"
    /\ cur' = GenTemplate(cur)
    /\ UNCHANGED <<deploy, API_KEY, phase, loadPc, loadResult, loadCount, model, processor, device>>

GenProcessorFallback ==
    /\ phase = "serving"
    /\ cur.pc = "gen_proc"
    /\ cur' = GenProc(cur)
    /\ UNCHANGED <<deploy, API_KEY, phase, loadPc, loadResult, loadCount, model, processor, device>>

GenGenerate ==
    /\ phase = "serving"
    /\ cur.pc = "gen_call1"
    /\ cur' = GenCall1(cur)
    /\ UNCHANGED <<deploy, API_KEY, phase, loadPc, loadResult, loadCount, model, processor, device>>

GenGenerateRetry ==
    /\ phase = "serving"
    /\ cur.pc = "gen_call2"
    /\ cur' = GenCall2(cur)
    /\ UNCHANGED <<deploy, API_KEY, phase, loadPc, loadResult, loadCount, model, processor, device>>

GenEncodeWav ==
    /\ phase = "serving"
    /\ cur.pc = "gen_encode"
    /\ cur' = GenEncode(cur)
    /\ UNCHANGED <<deploy, API_KEY, phase, loadPc, loadResult, loadCount, model, processor, device>>

GenReturnResponse ==
    /\ phase = "serving"
    /\ cur.pc = "gen_return"
    /\ cur' = GenReturn(cur)
    /\ UNCHANGED <<deploy, API_KEY, phase, loadPc, loadResult, loadCount, model, processor, device>>

RunExtractInput ==
    /\ phase = "serving"
    /\ cur.pc = "run_extract"
    /\ cur' = RunExtract(cur)
    /\ UNCHANGED <<deploy, API_KEY, phase, loadPc, loadResult, loadCount, model, processor, device>>

RunBuildTextInput ==
    /\ phase = "serving"
    /\ cur.pc = "run_build"
    /\ cur' = RunBuild(cur)
    /\ UNCHANGED <<deploy, API_KEY, phase, loadPc, loadResult, loadCount, model, processor, device>>

RunCollectOutput ==
    /\ phase = "serving"
    /\ cur.pc = "run_collect"
    /\ cur' = RunCollect(cur)
    /\ UNCHANGED <<deploy, API_KEY, phase, loadPc, loadResult, loadCount, model, processor, device>>


Next ==
    \/ LifespanStart
    \/ LoadImport
    \/ LoadSetDevice
    \/ LoadProcessor
    \/ LoadModel
    \/ LoadToDevice
    \/ LoadEval
    \/ LifespanYield
    \/ Receive
    \/ Respond
    \/ VerifyApiKey
    \/ ValidateBody
    \/ Root
    \/ HealthCheck
    \/ Ping
    \/ GenCheckLoaded
    \/ GenReferenceAudio
    \/ GenConversation
    \/ GenApplyChatTemplate
    \/ GenProcessorFallback
    \/ GenGenerate
    \/ GenGenerateRetry
    \/ GenEncodeWav
    \/ GenReturnResponse
    \/ RunExtractInput
    \/ RunBuildTextInput
    \/ RunCollectOutput

Spec == Init /\ [][Next]_vars

(***************************************************************************)
(* A handler run to its response in one go: the composition of its steps.  *)
(***************************************************************************)
Step(c) ==
    CASE c.pc = "deps"         -> Deps(c)
      [] c.pc = "validate"     -> Validate(c)
      [] c.pc = "root"         -> root(c)
      [] c.pc = "health"       -> health_check(c)
      [] c.pc = "ping"         -> ping(c)
      [] c.pc = "gen_check"    -> GenCheck(c)
      [] c.pc = "gen_ref"      -> GenRef(c)
      [] c.pc = "gen_conv"     -> GenConv(c)
      [] c.pc = "gen_template" -> GenTemplate(c)
      [] c.pc = "gen_proc"     -> GenProc(c)
      [] c.pc = "gen_call1"    -> GenCall1(c)
      [] c.pc = "gen_call2"    -> GenCall2(c)
      [] c.pc = "gen_encode"   -> GenEncode(c)
      [] c.pc = "gen_return"   -> GenReturn(c)
      [] c.pc = "run_extract"  -> RunExtract(c)
      [] c.pc = "run_build"    -> RunBuild(c)
      [] c.pc = "run_collect"  -> RunCollect(c)
      [] OTHER                 -> c

RECURSIVE RunHandler(_)
RunHandler(c) == IF c.pc \in {"idle", "done"} THEN c ELSE RunHandler(Step(c))

(***************************************************************************)
(* Vocabulary of the properties.                                           *)
(***************************************************************************)
Done == cur.pc = "done"
InFlight == cur.pc # "idle"
Resp == cur.resp[1]

ProtectedEndpoints == {"/", "/health", "/generate", "/run"}

\* the X-API-Key header is missing, empty or different from API_KEY
BadHeader == cur.header = None \/ cur.header[1] = "" \/ cur.header[1] # API_KEY
KeyAccepted == API_KEY = "" \/ ~BadHeader

NotLoaded == model = "None" \/ processor = "None"

CallIdx == 1..Len(cur.calls)
ProcessorOps == {"apply_chat_template", "processor"}
ProcessorCalls == { i \in CallIdx : cur.calls[i].op \in ProcessorOps }
GenerateCalls == { i \in CallIdx : cur.calls[i].op = "generate" }
EncodeCalls == { i \in CallIdx : cur.calls[i].op = "sf.write" }

\* the input is outside the documented ranges: text of 1..500 characters,
\* temperature within [0.0, 2.0]
FailsValidation(X) ==
    \/ X.text = None
    \/ X.text[1].len < 1
    \/ X.text[1].len > 500
    \/ X.temperature # None /\ (X.temperature[1] < 0 \/ X.temperature[1] > 20)

AudioAnswer ==
    /\ Done
    /\ Resp.status = 200
    /\ Resp.media_type = "audio/wav" \/ Resp.output # None

(***************************************************************************)
(* C1.  With a key configured, a request to /, /health, /generate or /run  *)
(* whose X-API-Key is missing, empty or wrong is answered 401 and never    *)
(* gets past the dependency: no handler body, no TextInput, no call of the *)
(* processor or the model, on /run as on /generate.  With no key           *)
(* configured no request is answered 401.                                  *)
(***************************************************************************)
C1_ApiKeyGate ==
    /\ (API_KEY # "" /\ InFlight /\ cur.endpoint \in ProtectedEndpoints /\ BadHeader)
         => /\ cur.pc \in {"deps", "done"}
            /\ cur.calls = <<>>
            /\ cur.ti = None
            /\ Done => Resp.status = 401
    /\ (API_KEY = "" /\ Done) => Resp.status # 401

C1_Witness ==
    /\ Done
    /\ API_KEY = "secret"
    /\ cur.endpoint = "/run"
    /\ cur.header = Some("wrong")
    /\ cur.kind = "object" /\ ~FailsValidation(cur.input)
    /\ ~NotLoaded
    /\ Resp.status = 401

(***************************************************************************)
(* C2.  A request to /ping is answered 200 {"status": "ok"} whatever the   *)
(* state of the model and the processor, whatever the configured key and   *)
(* whatever the header; it never passes through the key check.             *)
(***************************************************************************)
C2_PingAlwaysOk ==
    (InFlight /\ cur.endpoint = "/ping")
        => /\ cur.pc \in {"ping", "done"}
           /\ Done => /\ Resp.status = 200
                      /\ Resp.keys = {"status"}
                      /\ Resp.status_text = "ok"

C2_Witness ==
    /\ Done
    /\ cur.endpoint = "/ping"
    /\ API_KEY = "secret" /\ cur.header = None
    /\ loadResult = "raised" /\ processor = "obj" /\ model = "None"
    /\ Resp.status = 200

(***************************************************************************)
(* C3.  If load_model raised, the global model is None once the            *)
(* application serves, every /health that passes the key check is answered *)
(* 503 "unhealthy", and /health answers 200 "healthy" only when load_model *)
(* ran to completion.                                                      *)
(***************************************************************************)
C3_FailedLoadIsUnhealthy ==
    /\ (phase = "serving" /\ loadResult = "raised") => model = "None"
    /\ (Done /\ cur.endpoint = "/health" /\ KeyAccepted /\ loadResult = "raised")
         => Resp.status = 503 /\ Resp.status_text = "unhealthy"
    /\ (Done /\ cur.endpoint = "/health" /\ Resp.status = 200)
         => loadResult = "completed" /\ Resp.status_text = "healthy"

(***************************************************************************)
(* C4.  load_model is entered exactly once, during the lifespan startup    *)
(* and before any request is handled; it is never entered again, not even  *)
(* after a failed load; once the application serves, no step of any        *)
(* handler changes model, processor or device.                             *)
(***************************************************************************)
C4_LoadedOncePerProcess ==
    /\ [](loadCount <= 1)
    /\ [](phase = "serving" => loadCount = 1 /\ loadPc = "none")
    /\ [](InFlight => phase = "serving")
    /\ [][phase = "serving" => UNCHANGED <<model, processor, device, loadCount>>]_vars

C4_Witness ==
    /\ Done
    /\ cur.endpoint = "/generate"
    /\ KeyAccepted /\ ~FailsValidation(cur.input)
    /\ loadResult = "raised" /\ model = "None"
    /\ loadCount = 1
    /\ Resp.status = 503

(***************************************************************************)
(* C5.  Within a generation request the steps run in the order validate,   *)
(* processor, model.generate, encode, return, each only after the earlier  *)
(* ones completed: the processor is called only for a validated input, the *)
(* model only after a processor call succeeded, the encoder only after a   *)
(* generate call returned, and an audio answer is given only after all of  *)
(* them; on /generate and on /run neither the processor nor the model is   *)
(* called for an input that fails validation (text length outside 1..500,  *)
(* temperature outside [0.0, 2.0]).                                        *)
(***************************************************************************)
Succeeded(i) == cur.calls[i].outcome = "ok"

C5_PipelineOrder ==
    /\ (ProcessorCalls # {} \/ GenerateCalls # {})
         => cur.ti # None /\ ~FailsValidation(cur.input)
    /\ \A g \in GenerateCalls :
         /\ \E p \in ProcessorCalls : p < g /\ Succeeded(p)
         /\ \A p \in ProcessorCalls : p < g
    /\ \A w \in EncodeCalls :
         /\ \E g \in GenerateCalls : g < w /\ Succeeded(g)
         /\ \A g \in GenerateCalls : g < w
    /\ AudioAnswer
         => /\ \E w \in EncodeCalls : Succeeded(w)
            /\ \E g \in GenerateCalls : Succeeded(g)
            /\ ~FailsValidation(cur.input)
    /\ (InFlight /\ ~Done) => cur.resp = None

C5_Witness ==
    /\ AudioAnswer
    /\ cur.endpoint = "/run"
    /\ cur.input.text[1].len = 500
    /\ cur.input.temperature = Some(20)
    /\ Len(cur.calls) = 5

(***************************************************************************)
(* C6.  POST /run {"input": X} makes the same conversation, processor and  *)
(* model calls as POST /generate X, for every input object X and the same  *)
(* behaviour of the external library; and when /generate X succeeds, /run  *)
(* answers an output whose audio_base64 decodes to the WAV bytes /generate *)
(* streams, with audio_format "wav" and the text of X.                     *)
(***************************************************************************)
GenerateOf(c) == RunHandler(NewCtx("/generate", c.header, "object", c.input, c.env))

\* C6: /run makes the calls of /generate on the same input and returns its audio
C6_RunSameAsGenerate ==
    (Done /\ cur.endpoint = "/run" /\ cur.kind = "object")
        => LET g == GenerateOf(cur)
           IN  /\ cur.calls = g.calls
               /\ g.resp[1].status = 200
                    => /\ Resp.output # None
                       /\ b64decode(Resp.output[1].audio_base64) = g.resp[1].wav
                       /\ Resp.output[1].audio_format = "wav"
                       /\ Resp.output[1].text = cur.input.text[1]

(***************************************************************************)
(* C7.  Per request model.generate is called at most twice; a second call  *)
(* is made only right after a first one that raised TypeError, with the    *)
(* same inputs and without the temperature argument; when the first call   *)
(* raises anything else, or the second call raises, no further call is     *)
(* made and /generate answers 500.                                         *)
(***************************************************************************)
C7_GenerateFallback ==
    /\ Cardinality(GenerateCalls) <= 2
    /\ \A i \in GenerateCalls : \A j \in GenerateCalls :
         i < j => /\ j = i + 1
                  /\ cur.calls[i].outcome = "TypeError"
                  /\ cur.calls[i].kwargs = <<cur.ti[1].temperature>>
                  /\ cur.calls[j].kwargs = <<>>
                  /\ cur.calls[j].conversation = cur.calls[i].conversation
                  /\ cur.calls[j].text = cur.calls[i].text
                  /\ cur.calls[j].autocast = cur.calls[i].autocast
    /\ \A i \in GenerateCalls :
         (\/ cur.calls[i].outcome \notin {"ok", "TypeError"}
          \/ cur.calls[i].outcome # "ok" /\ \E h \in GenerateCalls : h < i)
            => /\ i = Len(cur.calls)
               /\ Done
               /\ cur.endpoint = "/generate" => Resp.status = 500

C7_Witness ==
    /\ Done
    /\ cur.endpoint = "/generate"
    /\ Cardinality(GenerateCalls) = 2
    /\ cur.calls[Len(cur.calls)].op = "generate"
    /\ Resp.status = 500

(***************************************************************************)
(* C8.  With model or processor None, a POST /generate that passed the key *)
(* check and validation is answered 503 without any external call, and the *)
(* catch-all never turns that 503 into a 500.  About the exceptions raised *)
(* after the loaded-check there are two statements: the original one,      *)
(* every exception ends in a 500, and the amended one, every exception but *)
(* the three the handler absorbs where they occur (a failure while         *)
(* fetching the reference audio, a failure of apply_chat_template, a       *)
(* TypeError of the first model.generate call) ends in a 500.              *)
(***************************************************************************)
PastLoadedCheck ==
    /\ cur.endpoint = "/generate"
    /\ cur.ti # None
    /\ cur.pc # "gen_check"

C8_NotLoadedIs503 ==
    (PastLoadedCheck /\ NotLoaded)
        => /\ Done
           /\ Resp.status = 503
           /\ Resp.detail = "Model not loaded. Please check server logs."
           /\ cur.calls = <<>>

Raised(i) == cur.calls[i].outcome # "ok"

\* an exception caught where it occurs, after which the request goes on
Absorbed(i) ==
    \/ cur.calls[i].op = "fetch_reference"
    \/ cur.calls[i].op = "apply_chat_template"
    \/ /\ cur.calls[i].op = "generate"
       /\ cur.calls[i].outcome = "TypeError"
       /\ cur.calls[i].kwargs # <<>>

GenerationSucceeded ==
    /\ cur.ti # None
    /\ ~NotLoaded
    /\ \E g \in GenerateCalls : Succeeded(g)
    /\ Len(cur.calls) > 0
    /\ cur.calls[Len(cur.calls)].op = "sf.write"
    /\ Succeeded(Len(cur.calls))

C9_RunAlways200 ==
    (Done /\ cur.endpoint = "/run" /\ KeyAccepted)
        => /\ Resp.status = 200
           /\ Cardinality(Resp.keys \cap {"output", "error"}) = 1
           /\ "output" \in Resp.keys <=> Resp.output # None
           /\ "output" \in Resp.keys <=> GenerationSucceeded
           /\ "error" \in Resp.keys <=> Resp.error # ""

C9_Witness ==
    /\ Done
    /\ cur.endpoint = "/run"
    /\ API_KEY = "secret" /\ cur.header = Some("secret")
    /\ Resp.status = 200
    /\ Resp.error = "500: Error generating audio"

(***************************************************************************)
(* C10.  For POST /run, when the job has no "input" key, or its input has  *)
(* no "text" key, or the text is empty, the answer is                      *)
(* {"error": "No text provided in input"}, given before any TextInput is   *)
(* built and without a call of the processor or the model, whether or not  *)
(* the model is loaded.  The original statement covers every such request; *)
(* the amended one covers those that passed the key check and whose input, *)
(* when present, is a JSON object.                                         *)
(***************************************************************************)
NoTextAnswer ==
    /\ Resp.status = 200
    /\ Resp.keys = {"error"}
    /\ Resp.error = "No text provided in input"
    /\ cur.ti = None
    /\ cur.calls = <<>>

InputHasNoText ==
    \/ cur.kind = "absent"
    \/ cur.kind = "null"
    \/ cur.kind = "object" /\ (cur.input.text = None \/ cur.input.text[1].len = 0)

\* C10 as first stated: every /run without text gets the no-text error
C10_NoTextEveryRequest ==
    (Done /\ cur.endpoint = "/run" /\ InputHasNoText) => NoTextAnswer

\* C10 amended: every /run without text that passed the key check, its input absent
\* or an object, gets the no-text error
C10_NoTextAuthorizedObject ==
    (Done /\ cur.endpoint = "/run" /\ KeyAccepted /\ InputHasNoText /\ cur.kind # "null")
        => NoTextAnswer

C10_Witness ==
    /\ Done
    /\ cur.endpoint = "/run"
    /\ API_KEY = "secret" /\ cur.header = Some("secret")
    /\ cur.kind = "object"
    /\ cur.input.text = Some([id |-> "t", len |-> 0])
    /\ ~NotLoaded
    /\ Resp.error = "No text provided in input"

(***************************************************************************)
(* The deployment script, src/deploy_to_runpod.py.  Each external step     *)
(* (a subprocess, input(), print) has an outcome drawn by the environment: *)
(* "ok", "fail" (the command exits non-zero), "interrupt" (the user        *)
(* presses Ctrl-C: KeyboardInterrupt) or "error" (another exception, such  *)
(* as FileNotFoundError or EOFError).                                      *)
(***************************************************************************)
Outcomes == {"ok", "fail", "interrupt", "error"}

\* DOCKERHUB_USERNAME in the environment, and what the user may type at the prompt
EnvUsernames == {None, Some(""), Some("alice")}
TypedUsernames == {"", "alice", "bob"}

Command(prog, sub, user) == [ prog |-> prog, sub |-> sub, user |-> user ]

Attempt(d, step, outcome, command) ==
    [ d EXCEPT !.steps = Append(@, [step |-> step, outcome |-> outcome]),
               !.commands = @ \o command ]

\* main returns value
Return(d, value) == [ d EXCEPT !.pc = "returned", !.result = value ]

\* an exception leaves main
Propagate(d, outcome) ==
    [ d EXCEPT !.pc = "raised",
               !.result = IF outcome = "interrupt" THEN "KeyboardInterrupt" ELSE "Exception" ]

\* run_command: what the caller sees, given check and the outcome of the subprocess
run_command(check, outcome) ==
    CASE outcome = "ok"        -> "ok"
      [] outcome = "fail"      -> IF check THEN "CalledProcessError" ELSE "nonzero"
      [] outcome = "interrupt" -> "KeyboardInterrupt"
      [] OTHER                 -> "Exception"

\* if not check_command('docker'): return False
CheckDocker(d, outcome) ==
    LET e == Attempt(d, "check_docker", outcome, <<Command("which", "docker", None)>>)
    IN  CASE outcome = "ok"   -> [ e EXCEPT !.pc = "docker_info" ]
          [] outcome = "fail" -> Return(e, "False")
          [] OTHER            -> Propagate(e, outcome)

\* try: run_command(['docker', 'info'], capture_output=True)  except: return False
DockerInfo(d, outcome) ==
    LET e == Attempt(d, "docker_info", outcome, <<Command("docker", "info", None)>>)
    IN  IF run_command(TRUE, outcome) = "ok"
        THEN [ e EXCEPT !.pc = "username" ]
        ELSE Return(e, "False")

\* username = os.getenv('DOCKERHUB_USERNAME'); if not username: username = input(...).strip()
\* if not username: return False
GetUsername(d, outcome, typed) ==
    IF d.env_username # None /\ d.env_username # Some("")
    THEN [ Attempt(d, "username", "ok", <<>>) EXCEPT
             !.pc = "login", !.username = d.env_username ]
    ELSE IF outcome \in {"interrupt", "error"}
    THEN Propagate(Attempt(d, "username", outcome, <<>>), outcome)
    ELSE IF typed = ""
    THEN Return(Attempt(d, "username", "fail", <<>>), "False")
    ELSE [ Attempt(d, "username", "ok", <<>>) EXCEPT
             !.pc = "login", !.username = Some(typed) ]

\* variant: the return code of docker login is not looked at
DockerLogin_ignores_returncode(d, outcome) ==
    LET e == Attempt(d, "login", outcome, <<Command("docker", "login", d.username)>>)
        r == run_command(FALSE, outcome)
    IN  IF r \in {"ok", "nonzero"} THEN [ e EXCEPT !.pc = "build" ]
        ELSE Propagate(e, outcome)

\* result = run_command(['docker', 'login', '-u', username], check=False)
\* if result.returncode != 0: return False
DockerLogin(d, outcome) ==
    LET e == Attempt(d, "login", outcome, <<Command("docker", "login", d.username)>>)
        r == run_command(FALSE, outcome)
    IN  CASE r = "ok"      -> [ e EXCEPT !.pc = "build" ]
          [] r = "nonzero" -> Return(e, "False")
          [] OTHER         -> Propagate(e, outcome)

\* try: run_command(['docker', 'build', '-t', image_name, '.'], ...)  except: return False
DockerBuild(d, outcome) ==
    LET e == Attempt(d, "build", outcome, <<Command("docker", "build", d.username)>>)
    IN  IF run_command(TRUE, outcome) = "ok"
        THEN [ e EXCEPT !.pc = "push" ]
        ELSE Return(e, "False")

\* try: run_command(['docker', 'push', image_name], ...)  except: return False
DockerPush(d, outcome) ==
    LET e == Attempt(d, "push", outcome, <<Command("docker", "push", d.username)>>)
    IN  IF run_command(TRUE, outcome) = "ok"
        THEN [ e EXCEPT !.pc = "instructions" ]
        ELSE Return(e, "False")

\* the printed RunPod instructions, then return True
PrintInstructions(d, outcome) ==
    LET e == Attempt(d, "instructions", outcome, <<>>)
    IN  IF outcome = "ok"
        THEN Return([ e EXCEPT !.printed = TRUE ], "True")
        ELSE Propagate(e, outcome)

\* sys.exit(0 if success else 1); except KeyboardInterrupt: sys.exit(1);
\* any other exception ends the interpreter with status 1
SysExit(d) ==
    [ d EXCEPT !.pc = "exited",
               !.exit_code = IF d.pc = "returned" /\ d.result = "True" THEN 0 ELSE 1 ]

DeployInit ==
    /\ \E u \in EnvUsernames :
         deploy = [ DeployNotRun EXCEPT !.pc = "check_docker", !.env_username = u ]
    /\ API_KEY = ""
    /\ phase = "init"
    /\ loadPc = "none"
    /\ loadResult = "none"
    /\ loadCount = 0
    /\ model = "None"
    /\ processor = "None"
    /\ device = "None"
    /\ cur = IdleCtx

StepCheckDocker ==
    /\ deploy.pc = "check_docker"
    /\ \E o \in Outcomes : deploy' = CheckDocker(deploy, o)
    /\ UNCHANGED appVars

StepDockerInfo ==
    /\ deploy.pc = "docker_info"
    /\ \E o \in Outcomes : deploy' = DockerInfo(deploy, o)
    /\ UNCHANGED appVars

StepGetUsername ==
    /\ deploy.pc = "username"
    /\ \E o \in Outcomes \ {"fail"} : \E t \in TypedUsernames :
         deploy' = GetUsername(deploy, o, t)
    /\ UNCHANGED appVars

StepDockerLogin ==
    /\ deploy.pc = "login"
    /\ \E o \in Outcomes : deploy' = DockerLogin(deploy, o)
    /\ UNCHANGED appVars

StepDockerBuild ==
    /\ deploy.pc = "build"
    /\ \E o \in Outcomes : deploy' = DockerBuild(deploy, o)
    /\ UNCHANGED appVars

StepDockerPush ==
    /\ deploy.pc = "push"
    /\ \E o \in Outcomes : deploy' = DockerPush(deploy, o)
    /\ UNCHANGED appVars

StepPrintInstructions ==
    /\ deploy.pc = "instructions"
    /\ \E o \in {"ok", "interrupt", "error"} : deploy' = PrintInstructions(deploy, o)
    /\ UNCHANGED appVars

StepSysExit ==
    /\ deploy.pc \in {"returned", "raised"}
    /\ deploy' = SysExit(deploy)
    /\ UNCHANGED appVars

DeployNext ==
    \/ StepCheckDocker
    \/ StepDockerInfo
    \/ StepGetUsername
    \/ StepDockerLogin
    \/ StepDockerBuild
    \/ StepDockerPush
    \/ StepPrintInstructions
    \/ StepSysExit

DeploySpec == DeployInit /\ [][DeployNext]_vars

(***************************************************************************)
(* C11.  The deployment script attempts its steps in the order             *)
(* docker-present check, docker daemon check, username acquisition, docker *)
(* login, docker build, docker push, print instructions; a step is         *)
(* attempted only if every earlier one succeeded; the first failing step   *)
(* makes main return False and no later step is attempted; main returns    *)
(* True, and the process exits with code 0, if and only if the push        *)
(* succeeded and the instructions were printed; every other outcome, a     *)
(* keyboard interrupt included, exits with code 1.                         *)
(***************************************************************************)
StepOrder ==
    <<"check_docker", "docker_info", "username", "login", "build", "push", "instructions">>

Attempted == Len(deploy.steps)
Ended == deploy.pc \in {"returned", "raised", "exited"}

C11_DeployStepOrder ==
    /\ Attempted <= Len(StepOrder)
    /\ \A i \in 1..Attempted : deploy.steps[i].step = StepOrder[i]
    /\ \A i \in 1..(Attempted - 1) : deploy.steps[i].outcome = "ok"
    /\ (Attempted > 0 /\ deploy.steps[Attempted].outcome # "ok")
         => Ended /\ deploy.result # "True"
    /\ (Attempted > 0 /\ deploy.steps[Attempted].outcome = "fail")
         => deploy.result = "False"
    /\ deploy.result = "True"
         <=> /\ Attempted = Len(StepOrder)
             /\ \A i \in 1..Attempted : deploy.steps[i].outcome = "ok"
             /\ deploy.printed
    /\ deploy.result = "True" => Ended
    /\ deploy.pc = "exited"
         => /\ deploy.result # "none"
            /\ deploy.exit_code = IF deploy.result = "True" THEN 0 ELSE 1
    /\ deploy.pc # "exited" => deploy.exit_code = -1
    /\ \A i \in 1..Len(deploy.commands) :
         /\ deploy.commands[i].user # None => deploy.commands[i].user = deploy.username
         /\ i > 1 => deploy.commands[i].prog = "docker"

C11_Witness ==
    /\ deploy.pc = "exited"
    /\ deploy.exit_code = 1
    /\ Attempted = 5
    /\ deploy.steps[5] = [step |-> "build", outcome |-> "fail"]
    /\ deploy.result = "False"
    /\ deploy.env_username = None /\ deploy.username = Some("bob")

=============================================================================
